---- MODULE Spec2Model ----
(***************************************************************************)
(* The zero-sized-element backend of concurrent-queue (src/src/zst.rs):    *)
(* one atomic word holding the item count and the closed bit, shared by    *)
(* threads that call push, pop and close.  Every action is one access to   *)
(* the shared word (a load, a compare-exchange or a fetch-or) together     *)
(* with the thread-local computation that follows it.                      *)
(***************************************************************************)
EXTENDS Integers, Sequences, FiniteSets, TLC

\* ------------------------------------------------------------------ bounds
\* Width of usize in bits (scaled down from 64 so the overflow boundary of
\* Zst::push is reachable).
WordBits == 3
\* Number of threads sharing the queue.
NumThreads == 2
\* Bounded queues are built with a capacity in 1..MaxCapacity.
MaxCapacity == 3

Threads == 1..NumThreads

\* --------------------------------------------------------- usize arithmetic
Modulus == 2 ^ WordBits
USIZE_MAX == Modulus - 1

\* x & y and x | y, bit by bit from the lowest.
RECURSIVE BitAnd(_, _)
BitAnd(x, y) ==
    IF x = 0 \/ y = 0 THEN 0
    ELSE (x % 2) * (y % 2) + 2 * BitAnd(x \div 2, y \div 2)

RECURSIVE BitOr(_, _)
BitOr(x, y) ==
    IF x = 0 THEN y
    ELSE IF y = 0 THEN x
    ELSE (IF (x % 2) + (y % 2) > 0 THEN 1 ELSE 0) + 2 * BitOr(x \div 2, y \div 2)

\* `<<` on usize drops the bits shifted out of the word.
Shl(x, n) == (x * (2 ^ n)) % Modulus
Shr(x, n) == x \div (2 ^ n)

\* No push is invoked once this many pushes have succeeded.
MaxPushes == 3

\* ------------------------------------------------------------ state encoding
CLOSED == Shl(1, 0)
REFCOUNT_SHIFT == 1

StateFrom(word) ==
    [count |-> Shr(word, REFCOUNT_SHIFT), closed |-> BitAnd(word, CLOSED) # 0]

UsizeFrom(s) ==
    BitOr(Shl(s.count, REFCOUNT_SHIFT), IF s.closed THEN CLOSED ELSE 0)

\* Option<NonZeroUsize>: <<>> is None, <<n>> is Some(n).
None == <<>>
Some(n) == <<n>>
Capacities == {None} \cup {Some(n) : n \in 1..MaxCapacity}
\* The arguments Zst::new is called with: Option<usize>.
CapacityArgs == {None} \cup {Some(n) : n \in 0..MaxCapacity}

\* ------------------------------------------------------------------- state
VARIABLES
    state,      \* Zst::state, the atomic word
    capacity,   \* Zst::capacity
    pc,         \* pc[t]: where thread t stands in its current call
    st,         \* st[t]: the local `state` of thread t's push or pop, while
                \* a compare-exchange from it is to come
    ret,        \* ret[t]: what thread t's last completed call returned
    pushOk,     \* number of push calls that returned Ok
    popOk,      \* number of pop calls that returned Ok
    closeTrue,  \* number of close calls that returned true
    closeRet,   \* TRUE once some close call has returned
    popClosed,  \* TRUE once some pop call has returned Closed
    atClose,    \* <<count, popOk>> when the closed bit was first set, else <<>>
    newArg,     \* the argument Zst::new was called with
    life,       \* "alive"; "panicked" when Zst::new panicked; "dropped"
    panicMsg,   \* the message of the panic of Zst::new, "" without one
    drops,      \* number of destructor runs made by Drop for Zst
    retries,    \* retries[t]: failed compare-exchanges of t's current call
    counting,   \* whether the behaviour records retries
    ring,       \* the bounded ring: head, tail, and each slot's stamp and value
    prod,       \* the producer of the ring: its place in push and its locals
    cons        \* the consumer of the ring: its place in pop, its locals, and
                \* the values it has received

\* What the calls on a live queue leave alone.
fixed == <<capacity, newArg, life, panicMsg, drops, counting, ring, prod, cons>>

vars == <<state, capacity, pc, st, ret, pushOk, popOk, closeTrue, closeRet,
          popClosed, atClose, newArg, life, panicMsg, drops, retries,
          counting, ring, prod, cons>>

\* The variables of the zero-sized backend.
zstVars == <<state, capacity, pc, st, ret, pushOk, popOk, closeTrue, closeRet,
             popClosed, atClose, newArg, life, panicMsg, drops, retries,
             counting>>

NoState == [count |-> 0, closed |-> FALSE]
NoRet == [op |-> "none", val |-> "none"]
Ret(op, val) == [op |-> op, val |-> val]

\* A Zst::new that takes any capacity.
NewUnchecked(arg) ==
    [panic |-> "", state |-> 0, capacity |-> arg]

\* Zst::new: a panic for Some(0), else an empty open queue with the capacity.
New(arg) ==
    IF arg # None /\ arg[1] = 0
    THEN [panic |-> "capacity must be positive", state |-> 0, capacity |-> None]
    ELSE [panic |-> "", state |-> 0, capacity |-> arg]

Alive == life = "alive"

\* ------------------------------------------------------ bounded ring backend
\* A slot that holds no value.
NoValue == -1

\* The ring built for a capacity: head and tail at position 0 of lap 0, every
\* slot ready to push in lap 0 (its stamp is its position).  No ring for None.
RingNew(cap) ==
    IF cap = None
    THEN [head |-> 0, tail |-> 0, stamp |-> <<>>, slot |-> <<>>]
    ELSE [head |-> 0, tail |-> 0,
          stamp |-> [i \in 1..cap[1] |-> i - 1],
          slot |-> [i \in 1..cap[1] |-> NoValue]]

ProdNew == [pc |-> "tail", tail |-> 0, i |-> 0, ret |-> "none"]
ConsNew == [pc |-> "head", head |-> 0, got |-> <<>>, ret |-> "none"]

\* The state after construction; retries are recorded when `count` is TRUE.
Start(count) ==
    /\ counting = count
    /\ newArg \in CapacityArgs
    /\ panicMsg = New(newArg).panic
    /\ life = IF New(newArg).panic = "" THEN "alive" ELSE "panicked"
    /\ state = New(newArg).state
    /\ capacity = New(newArg).capacity
    /\ drops = 0
    /\ retries = [t \in Threads |-> 0]
    /\ ring = RingNew(New(newArg).capacity)
    /\ prod = ProdNew
    /\ cons = ConsNew
    /\ pc = [t \in Threads |-> "idle"]
    /\ st = [t \in Threads |-> NoState]
    /\ ret = [t \in Threads |-> NoRet]
    /\ pushOk = 0
    /\ popOk = 0
    /\ closeTrue = 0
    /\ closeRet = FALSE
    /\ popClosed = FALSE
    /\ atClose = <<>>

Init == Start(FALSE)

\* The failed compare-exchanges of t's call after one more step: the count
\* `now` when they are recorded.
Retries(t, now) == IF counting THEN [retries EXCEPT ![t] = now] ELSE retries

\* --------------------------------------------------------- atomic primitives
\* A load that answers the word the queue was built with.
LoadStale(word) == 0

\* AtomicUsize::load
Load(word) == word

\* A compare-exchange that stores without comparing.
CompareExchangeBlind(current, expected, new) ==
    [ok |-> TRUE, word |-> new]

\* A compare-exchange that reports success without storing.
CompareExchangeNoStore(current, expected, new) ==
    [ok |-> current = expected, word |-> current]

\* A compare-exchange that stores the new word also when it fails.
CompareExchangeStoreOnErr(current, expected, new) ==
    [ok |-> current = expected, word |-> new]

\* A compare-exchange that fails whatever the current word is.
CompareExchangeFail(current, expected, new) ==
    [ok |-> FALSE, word |-> current]

\* AtomicUsize::compare_exchange: Ok and the new word when the current word is
\* the expected one, Err and the word left alone otherwise.
CompareExchange(current, expected, new) ==
    IF current = expected
    THEN [ok |-> TRUE, word |-> new]
    ELSE [ok |-> FALSE, word |-> current]

\* A fetch-or that answers the new word instead of the previous one.
FetchOrNew(current, mask) ==
    [word |-> BitOr(current, mask), prev |-> BitOr(current, mask)]

\* AtomicUsize::fetch_or: the new word and the previous one.
FetchOr(current, mask) ==
    [word |-> BitOr(current, mask), prev |-> current]

\* ----------------------------------------------------------------- Zst::push
\* The capacity check with > in place of >=.
PushCheckOffByOne(s, cap) ==
    IF s.closed THEN "Closed"
    ELSE IF cap # None /\ s.count > cap[1] THEN "Full"
    ELSE IF s.count + 1 >= Shr(USIZE_MAX, REFCOUNT_SHIFT) THEN "Full"
    ELSE "cas"

\* The checks without the closed check.
PushCheckNoClosed(s, cap) ==
    IF cap # None /\ s.count >= cap[1] THEN "Full"
    ELSE IF s.count + 1 >= Shr(USIZE_MAX, REFCOUNT_SHIFT) THEN "Full"
    ELSE "cas"

\* The capacity check made on the count the push would leave.
PushCheckEarlyFull(s, cap) ==
    IF s.closed THEN "Closed"
    ELSE IF cap # None /\ s.count + 1 >= cap[1] THEN "Full"
    ELSE IF s.count + 1 >= Shr(USIZE_MAX, REFCOUNT_SHIFT) THEN "Full"
    ELSE "cas"

\* The checks without the overflow check.
PushCheckNoOverflow(s, cap) ==
    IF s.closed THEN "Closed"
    ELSE IF cap # None /\ s.count >= cap[1] THEN "Full"
    ELSE "cas"

\* The capacity and overflow checks made before the closed check.
PushCheckFullFirst(s, cap) ==
    IF cap # None /\ s.count >= cap[1] THEN "Full"
    ELSE IF s.count + 1 >= Shr(USIZE_MAX, REFCOUNT_SHIFT) THEN "Full"
    ELSE IF s.closed THEN "Closed"
    ELSE "cas"

\* The checks at the top of the loop body, on the local state s: "Closed",
\* "Full", or "cas" when the compare-exchange is to be tried.
PushCheck(s, cap) ==
    IF s.closed THEN "Closed"
    ELSE IF cap # None /\ s.count >= cap[1] THEN "Full"
    ELSE IF s.count + 1 >= Shr(USIZE_MAX, REFCOUNT_SHIFT) THEN "Full"
    ELSE "cas"

\* A new state that does not count the item pushed.
PushNewStateSame(s) == s

PushNewState(s) == [s EXCEPT !.count = @ + 1]

\* A load of the word into the local state, followed by the loop's checks.
PushLoaded(t) ==
    LET s == StateFrom(Load(state))
        c == PushCheck(s, capacity)
    IN  /\ st' = [st EXCEPT ![t] = IF c = "cas" THEN s ELSE NoState]
        /\ pc' = [pc EXCEPT ![t] = IF c = "cas" THEN "push_cas" ELSE "idle"]
        /\ ret' = [ret EXCEPT ![t] = IF c = "cas" THEN NoRet ELSE Ret("push", c)]
        /\ retries' = Retries(t, IF c = "cas" THEN retries[t] ELSE 0)
        /\ UNCHANGED <<state, fixed, pushOk, popOk, closeTrue, closeRet,
                       popClosed, atClose>>

PushBegin(t) ==
    /\ Alive
    /\ pc[t] = "idle"
    /\ pushOk < MaxPushes
    /\ PushLoaded(t)

PushCas(t) ==
    /\ pc[t] = "push_cas"
    /\ LET r == CompareExchange(state, UsizeFrom(st[t]),
                                UsizeFrom(PushNewState(st[t])))
       IN  /\ state' = r.word
           /\ pc' = [pc EXCEPT ![t] = IF r.ok THEN "idle" ELSE "push_reload"]
           /\ ret' = [ret EXCEPT ![t] = IF r.ok THEN Ret("push", "Ok") ELSE NoRet]
           /\ pushOk' = IF r.ok THEN pushOk + 1 ELSE pushOk
           /\ st' = [st EXCEPT ![t] = NoState]
           /\ retries' = Retries(t, IF r.ok THEN 0 ELSE retries[t] + 1)
    /\ UNCHANGED <<fixed, popOk, closeTrue, closeRet, popClosed, atClose>>

PushReload(t) ==
    /\ pc[t] = "push_reload"
    /\ PushLoaded(t)

\* ------------------------------------------------------------------ Zst::pop
\* The closed check made before the empty check.
PopCheckClosedFirst(s) ==
    IF s.closed THEN "Closed"
    ELSE IF s.count = 0 THEN "Empty"
    ELSE "cas"

\* The two answers of an empty queue exchanged.
PopCheckSwapped(s) ==
    IF s.count = 0
    THEN IF s.closed THEN "Empty" ELSE "Closed"
    ELSE "cas"

PopCheck(s) ==
    IF s.count = 0
    THEN IF s.closed THEN "Closed" ELSE "Empty"
    ELSE "cas"

\* The new state built without `..state`: the closed flag is not carried over.
PopNewStateReopen(s) == [count |-> s.count - 1, closed |-> FALSE]

PopNewState(s) == [s EXCEPT !.count = @ - 1]

PopLoaded(t) ==
    LET s == StateFrom(Load(state))
        c == PopCheck(s)
    IN  /\ st' = [st EXCEPT ![t] = IF c = "cas" THEN s ELSE NoState]
        /\ pc' = [pc EXCEPT ![t] = IF c = "cas" THEN "pop_cas" ELSE "idle"]
        /\ ret' = [ret EXCEPT ![t] = IF c = "cas" THEN NoRet ELSE Ret("pop", c)]
        /\ popClosed' = (popClosed \/ c = "Closed")
        /\ retries' = Retries(t, IF c = "cas" THEN retries[t] ELSE 0)
        /\ UNCHANGED <<state, fixed, pushOk, popOk, closeTrue, closeRet,
                       atClose>>

PopBegin(t) ==
    /\ Alive
    /\ pc[t] = "idle"
    /\ PopLoaded(t)

PopCas(t) ==
    /\ pc[t] = "pop_cas"
    /\ LET r == CompareExchange(state, UsizeFrom(st[t]),
                                UsizeFrom(PopNewState(st[t])))
       IN  /\ state' = r.word
           /\ pc' = [pc EXCEPT ![t] = IF r.ok THEN "idle" ELSE "pop_reload"]
           /\ ret' = [ret EXCEPT ![t] = IF r.ok THEN Ret("pop", "Ok") ELSE NoRet]
           /\ popOk' = IF r.ok THEN popOk + 1 ELSE popOk
           /\ st' = [st EXCEPT ![t] = NoState]
           /\ retries' = Retries(t, IF r.ok THEN 0 ELSE retries[t] + 1)
    /\ UNCHANGED <<fixed, pushOk, closeTrue, closeRet, popClosed, atClose>>

PopReload(t) ==
    /\ pc[t] = "pop_reload"
    /\ PopLoaded(t)

\* ---------------------------------------------------------------- Zst::close
\* close's answer, "true" or "false": whether the previous word was open.
CloseResult(prev) == IF ~StateFrom(prev).closed THEN "true" ELSE "false"

Close(t) ==
    /\ Alive
    /\ pc[t] = "idle"
    /\ LET r == FetchOr(state, CLOSED)
           b == CloseResult(r.prev)
       IN  /\ state' = r.word
           /\ ret' = [ret EXCEPT ![t] = Ret("close", b)]
           /\ closeTrue' = IF b = "true" THEN closeTrue + 1 ELSE closeTrue
           /\ atClose' = IF atClose = <<>> /\ StateFrom(r.word).closed
                         THEN <<StateFrom(r.word).count, popOk>>
                         ELSE atClose
    /\ closeRet' = TRUE
    /\ UNCHANGED <<fixed, pc, st, pushOk, popOk, popClosed, retries>>

\* ------------------------------------------------------------ Drop for Zst
\* A drop that runs the destructor once for every unit of the word.
DropRunsOfWord(word) == word

\* The destructor runs a drop of the queue makes with the word `word`.
DropRuns(word) == StateFrom(word).count

\* drop takes &mut self: no call is in progress and none follows.
Drop ==
    /\ Alive
    /\ \A t \in Threads : pc[t] = "idle"
    /\ life' = "dropped"
    /\ drops' = drops + DropRuns(state)
    /\ UNCHANGED <<state, capacity, newArg, panicMsg, pc, st, ret, pushOk,
                   popOk, closeTrue, closeRet, popClosed, atClose, retries,
                   counting, ring, prod, cons>>

\* ------------------------------------------- bounded ring: push and pop
\* Head and tail are position + lap * capacity; the slot of such a word.
Index(word) == (word % capacity[1]) + 1

\* push, step 1: load tail.  The producer pushes 0, 1, .. in turn.
ProdLoadTail ==
    /\ prod.pc = "tail"
    /\ prod.i < MaxPushes
    /\ prod' = [prod EXCEPT !.pc = "stamp", !.tail = ring.tail]
    /\ UNCHANGED <<zstVars, ring, cons>>

\* push, steps 3 and 4: load the slot's stamp and compare it with tail.
ProdLoadStamp ==
    /\ prod.pc = "stamp"
    /\ LET stamp == ring.stamp[Index(prod.tail)]
       IN  prod' = [prod EXCEPT !.pc = IF stamp = prod.tail THEN "cas"
                                      ELSE IF stamp < prod.tail THEN "full"
                                      ELSE "tail"]
    /\ UNCHANGED <<zstVars, ring, cons>>

\* push, stamp = tail: compare-exchange of tail to tail + 1.
ProdCas ==
    /\ prod.pc = "cas"
    /\ LET r == CompareExchange(ring.tail, prod.tail, prod.tail + 1)
       IN  /\ ring' = [ring EXCEPT !.tail = r.word]
           /\ prod' = [prod EXCEPT !.pc = IF r.ok THEN "write" ELSE "tail"]
    /\ UNCHANGED <<zstVars, cons>>

\* push, after the compare-exchange: write the value into the slot.
ProdWrite ==
    /\ prod.pc = "write"
    /\ ring' = [ring EXCEPT !.slot[Index(prod.tail)] = prod.i]
    /\ prod' = [prod EXCEPT !.pc = "publish"]
    /\ UNCHANGED <<zstVars, cons>>

\* push, last step: set the stamp to tail + 1; the push returns Ok.
ProdPublish ==
    /\ prod.pc = "publish"
    /\ ring' = [ring EXCEPT !.stamp[Index(prod.tail)] = prod.tail + 1]
    /\ prod' = [prod EXCEPT !.pc = "tail", !.i = @ + 1, !.ret = "Ok"]
    /\ UNCHANGED <<zstVars, cons>>

\* push, stamp < tail: re-check tail; Full when it has not moved, else
\* retry.  The producer calls push again after Full.
ProdFull ==
    /\ prod.pc = "full"
    /\ prod' = [prod EXCEPT !.pc = "tail",
                            !.ret = IF ring.tail = prod.tail THEN "Full" ELSE @]
    /\ UNCHANGED <<zstVars, ring, cons>>

\* pop: load head.  The consumer pops until it has received every value.
ConsLoadHead ==
    /\ cons.pc = "head"
    /\ Len(cons.got) < MaxPushes
    /\ cons' = [cons EXCEPT !.pc = "stamp", !.head = ring.head]
    /\ UNCHANGED <<zstVars, ring, prod>>

\* pop: load the slot's stamp and compare it with head + 1 and head.
ConsLoadStamp ==
    /\ cons.pc = "stamp"
    /\ LET stamp == ring.stamp[Index(cons.head)]
       IN  cons' = [cons EXCEPT !.pc = IF stamp = cons.head + 1 THEN "cas"
                                      ELSE IF stamp = cons.head THEN "empty"
                                      ELSE "head"]
    /\ UNCHANGED <<zstVars, ring, prod>>

\* pop, stamp = head + 1: compare-exchange of head.
ConsCas ==
    /\ cons.pc = "cas"
    /\ LET r == CompareExchange(ring.head, cons.head, cons.head + 1)
       IN  /\ ring' = [ring EXCEPT !.head = r.word]
           /\ cons' = [cons EXCEPT !.pc = IF r.ok THEN "read" ELSE "head"]
    /\ UNCHANGED <<zstVars, prod>>

\* pop, after the compare-exchange: read the value out of the slot.
ConsRead ==
    /\ cons.pc = "read"
    /\ cons' = [cons EXCEPT !.pc = "publish",
                            !.got = Append(@, ring.slot[Index(cons.head)])]
    /\ UNCHANGED <<zstVars, ring, prod>>

\* pop, last step: set the stamp to head + capacity; the pop returns Ok.
ConsPublish ==
    /\ cons.pc = "publish"
    /\ ring' = [ring EXCEPT !.stamp[Index(cons.head)] = cons.head + capacity[1]]
    /\ cons' = [cons EXCEPT !.pc = "head", !.ret = "Ok"]
    /\ UNCHANGED <<zstVars, prod>>

\* pop, stamp = head: re-check head; Empty when it has not moved, else
\* retry.  The consumer calls pop again after Empty.
ConsEmpty ==
    /\ cons.pc = "empty"
    /\ cons' = [cons EXCEPT !.pc = "head",
                            !.ret = IF ring.head = cons.head THEN "Empty" ELSE @]
    /\ UNCHANGED <<zstVars, ring, prod>>

\* --------------------------------------------------------------- observers
len == StateFrom(Load(state)).count
is_closed == StateFrom(Load(state)).closed
is_empty == StateFrom(Load(state)).count = 0

\* An is_full that takes the closed bit for part of the count.
IsFullOfWord ==
    IF capacity # None THEN Load(state) >= capacity[1] ELSE FALSE

is_full ==
    IF capacity # None
    THEN StateFrom(Load(state)).count >= capacity[1]
    ELSE FALSE

\* Zst::capacity: Option<usize>.
Capacity == IF capacity # None THEN Some(capacity[1]) ELSE None

\* ------------------------------------------------------------ specification
\* A step of a call of some thread.
CallNext ==
    \E t \in Threads :
        \/ PushBegin(t)
        \/ PushCas(t)
        \/ PushReload(t)
        \/ PopBegin(t)
        \/ PopCas(t)
        \/ PopReload(t)
        \/ Close(t)

Next == CallNext \/ Drop

Spec == Init /\ [][Next]_vars

\* The queue stays in use: every thread that is inside a call is scheduled
\* again, and consumers keep calling pop.
Fairness ==
    \A t \in Threads :
        /\ WF_vars(PushCas(t) \/ PushReload(t) \/ PopCas(t) \/ PopReload(t))
        /\ SF_vars(PopBegin(t))

LiveSpec == Init /\ [][CallNext]_vars /\ Fairness

\* The calls alone, their retries recorded, with no assumption on
\* scheduling: any thread may stall at any step, for ever.
CallSpec == Start(TRUE) /\ [][CallNext]_vars

\* The threads call push and pop on a bounded queue one call at a time: no
\* call overlaps another and the queue stays open.
SeqInit == Init /\ capacity # None

NoOtherCall(t) == \A u \in Threads \ {t} : pc[u] = "idle"

SeqNext ==
    \E t \in Threads :
        \/ NoOtherCall(t) /\ PushBegin(t)
        \/ NoOtherCall(t) /\ PushCas(t)
        \/ NoOtherCall(t) /\ PopBegin(t)
        \/ NoOtherCall(t) /\ PopCas(t)

SeqSpec == SeqInit /\ [][SeqNext]_vars

\* THREADS threads share a bounded queue with capacity THREADS; each repeats:
\* push until a push returns Ok, then one pop.  The thread's last answer
\* tells where it stands in its loop body.
PushThenPopInit == Init /\ newArg = Some(NumThreads)

HasPushed(t) == ret[t] = Ret("push", "Ok")

PushThenPopNext ==
    \E t \in Threads :
        \/ ~HasPushed(t) /\ PushBegin(t)
        \/ PushCas(t)
        \/ PushReload(t)
        \/ HasPushed(t) /\ PopBegin(t)
        \/ PopCas(t)
        \/ PopReload(t)

PushThenPopSpec == PushThenPopInit /\ [][PushThenPopNext]_vars

\* One producer and one consumer on a bounded queue of usize: the producer
\* pushes 0, 1, .. retrying on failure, the consumer pops as many values
\* retrying on failure.
SpscInit == Init /\ capacity # None

SpscNext ==
    \/ ProdLoadTail
    \/ ProdLoadStamp
    \/ ProdCas
    \/ ProdWrite
    \/ ProdPublish
    \/ ProdFull
    \/ ConsLoadHead
    \/ ConsLoadStamp
    \/ ConsCas
    \/ ConsRead
    \/ ConsPublish
    \/ ConsEmpty

SpscSpec == SpscInit /\ [][SpscNext]_vars

\* ------------------------------------------------------------------ claims
\* The step taken is a step of thread t's push, pop, and it returns.
PushStep(t) == PushBegin(t) \/ PushCas(t) \/ PushReload(t)
PopStep(t) == PopBegin(t) \/ PopCas(t) \/ PopReload(t)
Returns(t) == pc'[t] = "idle"

\* What a pop would answer if it loaded the word now.
PopWouldFail == PopCheck(StateFrom(Load(state))) \in {"Empty", "Closed"}

\* C1: no item is lost or duplicated: the stored count is the number of
\* pushes that returned Ok minus the number of pops that returned Ok, pops
\* that returned Ok never outnumber such pushes, and when as many pops as
\* pushes have succeeded the queue is empty and a pop fails.
C1_NoLossNoDuplication ==
    /\ len = pushOk - popOk
    /\ popOk <= pushOk
    /\ (pushOk = popOk => len = 0 /\ PopWouldFail)

\* C1 witness: two pushes and two pops succeeded, and a pop then found the
\* queue empty.
C1_Witness ==
    /\ pushOk = 2
    /\ popOk = 2
    /\ \E t \in Threads : ret[t] = Ret("pop", "Empty")

\* The sequential queue: an atomic counter with a closed flag.
SeqPush(q, cap) ==
    IF q.closed THEN [q |-> q, r |-> "Closed"]
    ELSE IF cap # None /\ q.count >= cap[1] THEN [q |-> q, r |-> "Full"]
    ELSE IF q.count + 1 >= (2 ^ (WordBits - 1)) - 1 THEN [q |-> q, r |-> "Full"]
    ELSE [q |-> [q EXCEPT !.count = q.count + 1], r |-> "Ok"]

SeqPop(q) ==
    IF q.count = 0
    THEN [q |-> q, r |-> IF q.closed THEN "Closed" ELSE "Empty"]
    ELSE [q |-> [q EXCEPT !.count = q.count - 1], r |-> "Ok"]

SeqClose(q) ==
    [q |-> [q EXCEPT !.closed = TRUE], r |-> IF q.closed THEN "false" ELSE "true"]

\* The sequential queue's state held by the word.
AbsQueue == StateFrom(state)

\* A step of an operation either returns, and then it is the operation of
\* the sequential queue with that answer, or leaves the queue alone.
LinStep(t, seq) ==
    IF Returns(t)
    THEN [q |-> AbsQueue', r |-> ret'[t].val] = seq
    ELSE AbsQueue' = AbsQueue

\* C2: linearizability: every step of the interleaved load, compare-exchange
\* and fetch-or steps either leaves the sequential queue unchanged or is the
\* last step of one call, at which that call takes effect on the sequential
\* queue atomically and returns the sequential queue's answer.
C2_Linearizable ==
    [][\/ \E t \in Threads :
             \/ PushStep(t) /\ LinStep(t, SeqPush(AbsQueue, capacity))
             \/ PopStep(t) /\ LinStep(t, SeqPop(AbsQueue))
             \/ Close(t) /\ LinStep(t, SeqClose(AbsQueue))
       \/ Drop /\ AbsQueue' = AbsQueue]_vars

\* C2 witness: a compare-exchange of one thread lost to another thread's
\* successful operation.
C2_Witness ==
    \E t, u \in Threads :
        /\ t # u
        /\ pc[t] \in {"push_reload", "pop_reload"}
        /\ ret[u].val = "Ok"

\* C3: for a bounded queue 0 <= len() <= capacity() in every reachable state,
\* and the pushes that succeeded and were not popped never exceed the
\* capacity (two producers that load count = capacity - 1 do not both
\* succeed).
C3_LenWithinCapacity ==
    capacity # None =>
        /\ 0 <= len
        /\ len <= capacity[1]
        /\ pushOk - popOk <= capacity[1]

\* C3 witness: a queue of capacity 1 is full after its only successful
\* push, no pop has succeeded, and the other producer, which had loaded the
\* same count 0, lost the race.
C3_Witness ==
    /\ capacity = Some(1)
    /\ len = 1
    /\ pushOk = 1
    /\ popOk = 0
    /\ ~is_closed
    /\ \E t, u \in Threads :
          /\ t # u
          /\ pc[t] = "push_reload"
          /\ ret[u] = Ret("push", "Ok")


\* C4: after close() has taken effect no push succeeds: once the closed bit
\* is set the count never increases and no push returns Ok, also for a push
\* that loaded the word before the close and tries its compare-exchange after
\* it; and a push invoked after a close() has returned answers Closed.
C4_NoPushAfterClose ==
    [][/\ is_closed => (len' <= len /\ pushOk' = pushOk)
       /\ \A t \in Threads :
             (closeRet /\ PushBegin(t)) =>
                 (Returns(t) /\ ret'[t] = Ret("push", "Closed"))]_vars

\* C4 witness: the queue is closed, no push or pop has succeeded, and a
\* push's compare-exchange has failed: the push loaded the open word, the
\* close came next, and the compare-exchange after it.
C4_Witness ==
    /\ is_closed
    /\ pushOk = 0
    /\ popOk = 0
    /\ \E t \in Threads : pc[t] = "push_reload"

\* C5: closing loses no item: the close leaves the count unchanged; while the
\* queue is closed the count is the count n at the close minus the pops that
\* returned Ok since; a pop has returned Closed only after exactly n pops
\* returned Ok since the close; and a closed queue is eventually closed and
\* empty when consumers keep calling pop.
C5_CloseKeepsItems ==
    /\ [][\A t \in Threads : Close(t) => len' = len]_vars
    /\ [](is_closed =>
            /\ atClose # <<>>
            /\ len = atClose[1] - (popOk - atClose[2]))
    /\ [](popClosed =>
            /\ is_closed
            /\ atClose # <<>>
            /\ popOk - atClose[2] = atClose[1])
    /\ (is_closed ~> (is_closed /\ len = 0))

\* C5 witness: the queue was closed while holding two items, two pops then
\* returned Ok and a later pop returned Closed.
C5_Witness ==
    /\ atClose # <<>>
    /\ atClose[1] = 2
    /\ popOk = atClose[2] + 2
    /\ popClosed
    /\ \E t \in Threads : ret[t] = Ret("pop", "Closed")

\* C6: a pop answers Closed only when the queue is closed and holds no item,
\* answers Empty only when the queue is open and holds no item, and once a pop
\* has answered Closed every later pop answers Closed, never Ok or Empty.
C6_PopClosedTerminal ==
    [][\A t \in Threads :
          /\ (PopStep(t) /\ Returns(t) /\ ret'[t].val = "Closed") =>
                 (is_closed /\ len = 0)
          /\ (PopStep(t) /\ Returns(t) /\ ret'[t].val = "Empty") =>
                 (~is_closed /\ len = 0)
          /\ (popClosed /\ PopStep(t) /\ Returns(t)) =>
                 ret'[t] = Ret("pop", "Closed")
          /\ (popClosed /\ PopBegin(t)) => Returns(t)]_vars

\* C6 witness: a pop has answered Closed and a later pop of another thread
\* answered Closed too.
C6_Witness ==
    /\ popClosed
    /\ \E t, u \in Threads :
          /\ t # u
          /\ ret[t] = Ret("pop", "Closed")
          /\ ret[u] = Ret("pop", "Closed")

\* C7: close() answers true iff that call set the closed bit of an open
\* queue: among all close() calls exactly one answers true, the others
\* answer false, and once a close() has returned is_closed() is true.
C7_CloseOnce ==
    /\ [][\A t \in Threads :
             Close(t) => (ret'[t].val = "true" <=> (~is_closed /\ is_closed'))]_vars
    /\ [](closeTrue <= 1)
    /\ [](closeRet => (closeTrue = 1 /\ is_closed))

\* C7 witness: two threads have called close(); one was answered true and
\* the other false.
C7_Witness ==
    /\ closeRet
    /\ \E t, u \in Threads :
          /\ ret[t] = Ret("close", "true")
          /\ ret[u] = Ret("close", "false")

\* C8: close is terminal: no step clears the closed bit once it is set.
C8_ClosedStaysClosed == [][is_closed => is_closed']_vars

\* C8 witness: the queue is closed, one push and no pop has succeeded, and
\* a pop's compare-exchange has failed: the pop loaded the open word holding
\* the item, the close came next, and the compare-exchange, prepared from the
\* open word, after it; the queue is still closed.
C8_Witness ==
    /\ is_closed
    /\ pushOk = 1
    /\ popOk = 0
    /\ len = 1
    /\ \E t \in Threads : pc[t] = "pop_reload"

\* The count at which the overflow check of push answers Full.
OverflowCount == (2 ^ (WordBits - 1)) - 2

\* C9 as stated: push answers Full only for a bounded queue whose observed
\* count equals its capacity; never for an unbounded queue.
C9_FullOnlyBoundedAtCapacity ==
    [][\A t \in Threads :
          (PushStep(t) /\ Returns(t) /\ ret'[t].val = "Full") =>
              (capacity # None /\ len = capacity[1])]_vars

\* C9 amended: push answers Full only when the queue is bounded and the
\* count it observed equals the capacity, or when the count it observed is at
\* the overflow boundary (count + 1 >= usize::MAX >> 1), bounded or not.
C9_FullOnlyAtCapacityOrOverflow ==
    [][\A t \in Threads :
          (PushStep(t) /\ Returns(t) /\ ret'[t].val = "Full") =>
              \/ capacity # None /\ len = capacity[1]
              \/ len = OverflowCount]_vars

\* C9 witness: a push on an unbounded queue was answered Full.
C9_Witness ==
    /\ capacity = None
    /\ \E t \in Threads : ret[t] = Ret("push", "Full")

\* C10: push answers Full at the overflow boundary: an open queue whose
\* count is 2^(w-1) - 2 answers Full to a push, so the count never exceeds
\* 2^(w-1) - 2, every word a push encodes decodes to the state encoded (no
\* wrap), and the closed bit is set only by close.
C10_NoOverflow ==
    /\ [](len <= OverflowCount)
    /\ [](\A t \in Threads :
             pc[t] = "push_cas" =>
                 /\ UsizeFrom(PushNewState(st[t])) =
                        2 * (st[t].count + 1) + (IF st[t].closed THEN 1 ELSE 0)
                 /\ StateFrom(UsizeFrom(PushNewState(st[t]))) =
                        PushNewState(st[t]))
    /\ [](is_closed <=> closeRet)
    /\ [][\A t \in Threads :
             ((PushBegin(t) \/ PushReload(t)) /\ ~is_closed
                 /\ len = OverflowCount) =>
                 (Returns(t) /\ ret'[t] = Ret("push", "Full"))]_vars

\* C10 witness: an unbounded queue holds 2^(w-1) - 2 items and a push was
\* answered Full.
C10_Witness ==
    /\ capacity = None
    /\ len = OverflowCount
    /\ \E t \in Threads : ret[t] = Ret("push", "Full")

\* With no call overlapping another: a push on a queue holding fewer than
\* its capacity returns Ok and adds one item, a push on a queue at capacity
\* returns Full, and a pop on a queue holding an item returns Ok and removes
\* one.
SeqPushPop ==
    \A t \in Threads :
        /\ (PushBegin(t) /\ len < capacity[1]) => pc'[t] = "push_cas"
        /\ (PushBegin(t) /\ len = capacity[1]) =>
               (Returns(t) /\ ret'[t] = Ret("push", "Full"))
        /\ PushCas(t) =>
               (Returns(t) /\ ret'[t] = Ret("push", "Ok") /\ len' = len + 1)
        /\ (PopBegin(t) /\ len > 0) => pc'[t] = "pop_cas"
        /\ PopCas(t) =>
               (Returns(t) /\ ret'[t] = Ret("pop", "Ok") /\ len' = len - 1)

\* C11 as stated: for a bounded queue of any capacity c >= 1, empty and
\* open, with no overlapping calls: c pushes in a row return Ok, the next returns
\* Full, and after one pop exactly one more push returns Ok before Full.
C11_FillThenFull == [][SeqPushPop]_vars

\* C11 amended: the same for every capacity c with 1 <= c < usize::MAX >> 1;
\* from that capacity on the overflow check answers Full at count
\* (usize::MAX >> 1) - 1, before c pushes have succeeded.
C11_FillThenFullBelowOverflow ==
    [][capacity[1] <= OverflowCount => SeqPushPop]_vars

\* C11 witness: on a queue of capacity 1 two pushes and one pop have
\* succeeded, the queue holds one item and the last push was answered Full.
C11_Witness ==
    /\ capacity = Some(1)
    /\ pushOk = 2
    /\ popOk = 1
    /\ len = 1
    /\ ret[1] = Ret("push", "Full")

\* C12: on one state word, is_empty() is true iff len() = 0 and is_full() is
\* true iff capacity() = Some(len()); is_full() is false for an unbounded
\* queue; and close changes none of len(), is_empty(), is_full().
C12_ObserversAgree ==
    /\ [](is_empty <=> len = 0)
    /\ [](is_full <=> Capacity = Some(len))
    /\ [](capacity = None => ~is_full)
    /\ [][\A t \in Threads :
             Close(t) => /\ len' = len
                         /\ is_empty' = is_empty
                         /\ is_full' = is_full]_vars

\* C12 witness: a bounded queue was closed by a close() that answered true
\* while it held as many items as its capacity: it is full, not empty.
C12_Witness ==
    /\ capacity = Some(2)
    /\ len = 2
    /\ is_full
    /\ ~is_empty
    /\ is_closed
    /\ \E t \in Threads : ret[t] = Ret("close", "true")

\* C13: every item pushed is destroyed once: no step of a push, pop or close
\* runs a destructor of the queue, every pop that returns Ok takes exactly one
\* item out, and dropping the queue runs the destructor exactly len() times,
\* which is the pushes that returned Ok minus the pops that returned Ok.
C13_DropRunsLenTimes ==
    /\ [][CallNext => drops' = drops]_vars
    /\ [][\A t \in Threads :
             (PopStep(t) /\ Returns(t) /\ ret'[t].val = "Ok") =>
                 (len' = len - 1 /\ popOk' = popOk + 1)]_vars
    /\ [][Drop => (drops' = len /\ drops' = pushOk - popOk)]_vars
    /\ [](life = "dropped" => (drops = len /\ drops = pushOk - popOk))
    /\ [](life # "dropped" => drops = 0)

\* C13 witness: a closed queue was dropped after three pushes and one pop
\* had succeeded: the drop ran the destructor twice.
C13_Witness ==
    /\ life = "dropped"
    /\ pushOk = 3
    /\ popOk = 1
    /\ is_closed
    /\ drops = 2

\* C14: a failing operation has no effect: the step at which a push returns
\* Full or Closed, or a pop returns Empty or Closed, leaves the word as it
\* is, and so does every other step of a push or pop except the
\* compare-exchange that succeeds, at which the call returns Ok: a call that
\* fails has written nothing, count and closed flag are what they were.
C14_FailureWritesNothing ==
    [][\A t \in Threads :
          (PushStep(t) \/ PopStep(t)) =>
              /\ (Returns(t) /\ ret'[t].val # "Ok") =>
                     (state' = state /\ len' = len /\ is_closed' = is_closed)
              /\ state' # state => (Returns(t) /\ ret'[t].val = "Ok")
              /\ ~Returns(t) =>
                     (state' = state /\ pushOk' = pushOk /\ popOk' = popOk)]_vars

\* C14 witness: on a queue of capacity 1 a pop was answered Empty, a push
\* then succeeded and the next push was answered Full; the queue is open
\* and holds the one item.
C14_Witness ==
    /\ capacity = Some(1)
    /\ len = 1
    /\ pushOk = 1
    /\ popOk = 0
    /\ ~is_closed
    /\ \E t, u \in Threads :
          /\ ret[t] = Ret("push", "Full")
          /\ ret[u] = Ret("pop", "Empty")

\* The threads whose push has returned Ok and whose pop has not returned.
Holders == {t \in Threads : HasPushed(t) \/ pc[t] \in {"pop_cas", "pop_reload"}}

\* C15: T threads share an open bounded queue of capacity T, each pushing
\* until Ok and then popping once: every pop returns Ok, never Empty or
\* Closed, and the count is always at least (here: exactly) the number of
\* threads that have pushed and not yet popped.
C15_PopAfterOwnPush ==
    /\ [][\A t \in Threads :
             (PopStep(t) /\ Returns(t)) => ret'[t] = Ret("pop", "Ok")]_vars
    /\ [](len >= Cardinality(Holders))
    /\ [](len = Cardinality(Holders))

\* C15 witness: every thread pushed while the others held their items, the
\* queue was at its capacity, and every thread's pop has since returned Ok.
C15_Witness ==
    /\ capacity = Some(NumThreads)
    /\ pushOk = NumThreads
    /\ popOk = NumThreads
    /\ len = 0
    /\ \A t \in Threads : ret[t] = Ret("pop", "Ok")

\* The steps a thread takes inside a call of push or pop.
InCall(t) == PushCas(t) \/ PushReload(t) \/ PopCas(t) \/ PopReload(t)

\* C16: push and pop are lock-free: a compare-exchange fails, and the loop
\* goes round again, only when the word is no longer the one the call loaded;
\* every change of the word is the last step of a push or pop that returns Ok
\* or of a close that returns true, so a call has never retried more often
\* than operations have completed; and with the finitely many successful
\* operations of the model, a thread that keeps being scheduled returns from
\* each of its calls, whether the other threads run or stall.
C16_LockFree ==
    /\ [][\A t \in Threads :
             ((PushCas(t) \/ PopCas(t)) /\ ~Returns(t)) =>
                 (state # UsizeFrom(st[t]) /\ state' = state)]_vars
    /\ [][state' # state =>
             \E u \in Threads :
                 /\ PushStep(u) \/ PopStep(u) \/ Close(u)
                 /\ Returns(u)
                 /\ ret'[u].val \in {"Ok", "true"}]_vars
    /\ [](\A t \in Threads : retries[t] <= pushOk + popOk + closeTrue)
    /\ \A t \in Threads :
           WF_vars(InCall(t)) => (pc[t] # "idle" ~> pc[t] = "idle")

\* C16 witness: a push is going round its loop for the second time, both of
\* its compare-exchanges having failed, while another thread's operation has
\* returned Ok.
C16_Witness ==
    \E t, u \in Threads :
        /\ t # u
        /\ pc[t] = "push_reload"
        /\ retries[t] = 2
        /\ ret[u].val = "Ok"

\* The atomic instructions thread t's call of push or pop has performed so
\* far: a load and a compare-exchange for every failed try, and the load of
\* the try under way.
Atomics(t) ==
    CASE pc[t] = "idle" -> 0
      [] pc[t] \in {"push_cas", "pop_cas"} -> 2 * retries[t] + 1
      [] OTHER -> 2 * retries[t]

C19_Construction ==
    /\ [](newArg = Some(0) <=> life = "panicked")
    /\ [](life = "panicked" =>
            /\ panicMsg = "capacity must be positive"
            /\ \A t \in Threads : pc[t] = "idle" /\ ret[t] = NoRet
            /\ pushOk = 0 /\ popOk = 0 /\ ~closeRet /\ drops = 0)
    /\ [](life # "panicked" =>
            /\ panicMsg = ""
            /\ Capacity = newArg
            /\ newArg # None => newArg[1] >= 1)
    /\ []((Alive /\ pushOk = 0 /\ ~closeRet) =>
            (len = 0 /\ is_empty /\ ~is_closed))
    /\ [][capacity' = capacity /\ Capacity' = Capacity]_vars

\* C19 witness: a queue built with capacity 2 has seen three pushes and a
\* pop succeed and a close; its capacity() is still Some(2).
C19_Witness ==
    /\ newArg = Some(2)
    /\ Alive
    /\ Capacity = Some(2)
    /\ pushOk = 3
    /\ popOk = 1
    /\ is_closed

\* C20: Closed takes precedence over Full: a push that loads a closed word
\* answers Closed, also when the count is at the capacity or at the overflow
\* boundary, so on a closed queue no push answers Full (nor Ok).
C20_ClosedBeforeFull ==
    [][\A t \in Threads :
          /\ ((PushBegin(t) \/ PushReload(t)) /\ is_closed) =>
                 (Returns(t) /\ ret'[t] = Ret("push", "Closed"))
          /\ (PushStep(t) /\ is_closed /\ Returns(t)) =>
                 ret'[t].val \notin {"Full", "Ok"}]_vars

\* C20 witness: a closed bounded queue holds as many items as its capacity,
\* which is also the count of the overflow boundary, and a push on it was
\* answered Closed.
C20_Witness ==
    /\ is_closed
    /\ capacity # None
    /\ len = capacity[1]
    /\ len = OverflowCount
    /\ \E t \in Threads : ret[t] = Ret("push", "Closed")

====
